---- MODULE Spec2Model ----
(***************************************************************************)
(* Model of AuditManager (packages/core/server/src/audit-manager/index.ts) *)
(* : the rule registry (registerAction / registerActions / getAction) and  *)
(* the request interception pipeline (middleware / output).                *)
(*                                                                         *)
(* Three specifications: Spec, the registry under any sequence of          *)
(* registrations; SpecPipeline, concurrent requests through the middleware *)
(* on a registry filled at startup; SpecRecord, the record of one request  *)
(* over the inputs it is built from.                                       *)
(*                                                                         *)
(* Strings are sequences of atoms.  An atom stands for a run of characters *)
(* of one lexical class: a NameAtom is a non-empty run of [a-zA-Z0-9_-],   *)
(* ":" and "*" are themselves, and "." is a character outside every class  *)
(* of the token grammar.  Two strings are equal iff their sequences are.   *)
(***************************************************************************)
EXTENDS Integers, Sequences, FiniteSets, TLC

VARIABLES
    resources,   \* this.resources : Map<string, Map<string, Action>>
    regLog,      \* history: the arguments of the registerAction calls, in order
    logger,      \* this.logger
    ctx,         \* ctx of each request
    mw,          \* each request's call of the middleware function (lines 306-326)
    out          \* each request's call of output (lines 266-303)

vars == <<resources, regLog, logger, ctx, mw, out>>

-----------------------------------------------------------------------------
(* Strings *)

NameAtoms == {"user", "post", "create", "update", "list", "__default__"}

\* /^[a-zA-Z0-9_-]+$/
nameRegex(s) ==
    /\ Len(s) >= 1
    /\ \A i \in 1..Len(s) : s[i] \in NameAtoms

\* /^([a-zA-Z0-9_-]+):\*$/
resourceWildcardRegex(s) ==
    /\ Len(s) >= 3
    /\ s[Len(s)] = "*"
    /\ s[Len(s) - 1] = ":"
    /\ nameRegex(SubSeq(s, 1, Len(s) - 2))

\* /^([a-zA-Z0-9_-]+):([a-zA-Z0-9_-]+)$/
resourceAndActionRegex(s) ==
    \E k \in 1..Len(s) :
        /\ s[k] = ":"
        /\ nameRegex(SubSeq(s, 1, k - 1))
        /\ nameRegex(SubSeq(s, k + 1, Len(s)))

\* originAction.match(regex)[1] of either two-part regex: the text before the colon
matchGroup1(s) ==
    LET k == CHOOSE i \in 1..Len(s) : s[i] = ":" /\ nameRegex(SubSeq(s, 1, i - 1))
    IN  SubSeq(s, 1, k - 1)

\* originAction.match(resourceAndActionRegex)[2]: the text after the colon
matchGroup2(s) ==
    LET k == CHOOSE i \in 1..Len(s) : s[i] = ":" /\ nameRegex(SubSeq(s, 1, i - 1))
    IN  SubSeq(s, k + 1, Len(s))

\* '__default__', the key of the any-resource bucket and of the any-action entry
DEFAULT == <<"__default__">>

\* the empty string ''
EMPTY == <<>>

\* an absent string argument (no string over the atoms equals it)
UNDEFINED == <<"undefined">>

\* getAction's null result (no rule equals it)
NULL == [null |-> TRUE]

\* a hook that is not given: null (lines 112-113) or an absent property
NoHookNull == "null"
NoHookUndefined == "undefined"

-----------------------------------------------------------------------------
(* Inputs of registration *)

\* the names registration tokens are built from
USER == <<"user">>
CREATE == <<"create">>
UPDATE == <<"update">>
POST == <<"post">>
LIST == <<"list">>
ResourceNames == {USER, DEFAULT}
ActionNames == {CREATE, DEFAULT}

\* the three token shapes of lines 66, 69 and 72
BareToken(a) == a
WildcardToken(r) == r \o <<":", "*">>
QualifiedToken(r, a) == r \o <<":">> \o a

WellFormedTokens ==
    {BareToken(a) : a \in ActionNames}
      \cup {WildcardToken(r) : r \in ResourceNames}
      \cup {QualifiedToken(r, a) : r \in ResourceNames, a \in ActionNames}
      \cup {QualifiedToken(USER, UPDATE)}

MalformedTokens ==
    {EMPTY, <<"user", ":">>, <<"user", ".", "create">>}

Tokens == WellFormedTokens \cup MalformedTokens

\* the hook functions a caller may pass
MetaDataHooks == {"e1"}
UserInfoHooks == {"u1"}

\* the tokens registered with hooks (lines 92, 94: 'user:*', 'user:create')
HookedTokens == {WildcardToken(USER), QualifiedToken(USER, CREATE)}

\* type Action = string | { name, getMetaData?, getUserInfo? }
StringActions == [type : {"string"}, name : Tokens]
ObjectActions ==
    [type : {"object"}, name : HookedTokens,
     getMetaData : MetaDataHooks \cup {NoHookUndefined},
     getUserInfo : UserInfoHooks \cup {NoHookUndefined}]
ActionInputs == StringActions \cup ObjectActions

-----------------------------------------------------------------------------
(* The registry *)

\* new Map()
EmptyMap == <<>>

MapHas(m, k) == k \in DOMAIN m
MapSet(m, k, v) == [x \in (DOMAIN m) \cup {k} |-> IF x = k THEN v ELSE m[x]]

\* lines 111-120: the hooks registerAction reads from its argument
argGetMetaData(action) ==
    IF action.type = "string" THEN NoHookNull ELSE action.getMetaData
argGetUserInfo(action) ==
    IF action.type = "string" THEN NoHookNull ELSE action.getUserInfo

\* a hook value is truthy when it is a function
Truthy(h) == h # NoHookNull /\ h # NoHookUndefined

\* lines 125-140: the three tests run one after the other, each overwriting
parsedNames(originAction) ==
    LET s0 == [resourceName |-> EMPTY, actionName |-> EMPTY]
        s1 == IF nameRegex(originAction)
              THEN [resourceName |-> DEFAULT, actionName |-> originAction]
              ELSE s0
        s2 == IF resourceWildcardRegex(originAction)
              THEN [resourceName |-> matchGroup1(originAction), actionName |-> DEFAULT]
              ELSE s1
        s3 == IF resourceAndActionRegex(originAction)
              THEN [resourceName |-> matchGroup1(originAction),
                    actionName |-> matchGroup2(originAction)]
              ELSE s2
    IN  s3

\* lines 149-157: the stored rule
saveAction(action) ==
    [name |-> action.name,
     getMetaData |-> IF Truthy(argGetMetaData(action))
                     THEN argGetMetaData(action) ELSE NoHookUndefined,
     getUserInfo |-> IF Truthy(argGetUserInfo(action))
                     THEN argGetUserInfo(action) ELSE NoHookUndefined]

\* lines 141-143: the early return
registerActionReturnsEarly(action) ==
    LET p == parsedNames(action.name)
    IN  p.resourceName = EMPTY /\ p.actionName = EMPTY

\* registerAction that keeps the hooks of the rule it replaces when the new
\* argument gives none
registerAction_keepHooks(res, action) ==
    LET p == parsedNames(action.name)
        resource == IF MapHas(res, p.resourceName)
                    THEN res[p.resourceName] ELSE EmptyMap
        new == saveAction(action)
        old == IF MapHas(resource, p.actionName) THEN resource[p.actionName] ELSE new
        kept == [name |-> new.name,
                 getMetaData |-> IF Truthy(new.getMetaData)
                                 THEN new.getMetaData ELSE old.getMetaData,
                 getUserInfo |-> IF Truthy(new.getUserInfo)
                                 THEN new.getUserInfo ELSE old.getUserInfo]
    IN  IF registerActionReturnsEarly(action)
        THEN res
        ELSE MapSet(res, p.resourceName, MapSet(resource, p.actionName, kept))

\* registerAction without the early return of lines 141-143: a token no grammar
\* matches is stored under the keys '' and ''
registerAction_noEarlyReturn(res, action) ==
    LET p == parsedNames(action.name)
        resource == IF MapHas(res, p.resourceName)
                    THEN res[p.resourceName] ELSE EmptyMap
    IN  MapSet(res, p.resourceName,
               MapSet(resource, p.actionName, saveAction(action)))

\* registerAction(action): the registry after the call
registerAction(res, action) ==
    LET p == parsedNames(action.name)
        resource == IF MapHas(res, p.resourceName)
                    THEN res[p.resourceName] ELSE EmptyMap
    IN  IF registerActionReturnsEarly(action)
        THEN res
        ELSE MapSet(res, p.resourceName,
                    MapSet(resource, p.actionName, saveAction(action)))

\* registerActions(actions): actions.forEach(registerAction)
RECURSIVE registerActions(_, _)
registerActions(res, actions) ==
    IF actions = <<>>
    THEN res
    ELSE registerActions(registerAction(res, Head(actions)), Tail(actions))

\* getAction that falls through to the '__default__' bucket whenever the named
\* resource has no rule for the action
getAction_fallThrough(res, action, resource) ==
    LET resourceName ==
            IF resource = UNDEFINED \/ resource = EMPTY THEN DEFAULT ELSE resource
    IN  IF MapHas(res, resourceName) /\ MapHas(res[resourceName], action)
        THEN res[resourceName][action]
        ELSE IF resourceName # DEFAULT /\ MapHas(res, resourceName)
                /\ MapHas(res[resourceName], DEFAULT)
        THEN res[resourceName][DEFAULT]
        ELSE IF MapHas(res, DEFAULT) /\ MapHas(res[DEFAULT], action)
        THEN res[DEFAULT][action]
        ELSE NULL

\* getAction(action, resource?)
getAction(res, action, resource) ==
    LET resourceName ==
            IF resource = UNDEFINED \/ resource = EMPTY THEN DEFAULT ELSE resource
    IN  IF resourceName = DEFAULT
        THEN IF MapHas(res, resourceName) /\ MapHas(res[resourceName], action)
             THEN res[resourceName][action]
             ELSE NULL
        ELSE IF MapHas(res, resourceName)
             THEN IF MapHas(res[resourceName], action)
                  THEN res[resourceName][action]
                  ELSE IF MapHas(res[resourceName], DEFAULT)
                       THEN res[resourceName][DEFAULT]
                       ELSE NULL
             ELSE IF MapHas(res, DEFAULT) /\ MapHas(res[DEFAULT], action)
                  THEN res[DEFAULT][action]
                  ELSE NULL

-----------------------------------------------------------------------------
(* Values thrown and messages *)

\* what err.message gives when err has no message property
NoMessage == "<undefined>"

\* values a handler, a hook or a sink may throw or reject with
Boom == [type |-> "Error", message |-> "boom"]
Oops == [type |-> "string", value |-> "oops"]
NullValue == [type |-> "null"]
HookError == [type |-> "Error", message |-> "hook failed"]
SinkError == [type |-> "Error", message |-> "sink failed"]

\* the TypeError raised by reading a property of null or undefined
TypeErrorValue == [type |-> "TypeError", message |-> "cannot read properties"]

\* does evaluating err.message throw?
messageThrows(err) == err.type \in {"null", "undefined"}

\* err.message, when it does not throw
messageOf(err) ==
    IF err.type \in {"Error", "TypeError"} THEN err.message ELSE NoMessage

-----------------------------------------------------------------------------
(* The request context and the audit record *)

\* { ...a, ...b }: the keys of both, b winning
Spread(a, b) == b @@ a

\* {}
EmptyObject == <<>>

\* metadata: null (line 246)
NullMetadata == [null |-> TRUE]

\* ctx.action.params: an object, or undefined on a context without parsed params
ParamsGiven == [defined |-> TRUE, filterByTk |-> EMPTY, filterKeys |-> <<>>]
ParamsUndefined == [defined |-> FALSE]

\* resourceName.split('.'): the parts between the "." atoms
RECURSIVE split(_)
split(s) ==
    IF \E i \in 1..Len(s) : s[i] = "."
    THEN LET k == CHOOSE i \in 1..Len(s) :
                    s[i] = "." /\ \A j \in 1..(i - 1) : s[j] # "."
         IN  <<SubSeq(s, 1, k - 1)>> \o split(SubSeq(s, k + 1, Len(s)))
    ELSE <<s>>

\* filterKeys.join(',')
RECURSIVE join(_)
join(keys) ==
    IF keys = <<>> THEN EMPTY
    ELSE IF Len(keys) = 1 THEN Head(keys)
    ELSE Head(keys) \o <<",">> \o join(Tail(keys))

\* formatResourceUk(ctx); the destructuring of line 252 throws on undefined params
formatResourceUkThrows(c) == ~c.action.params.defined

formatResourceUk(c) ==
    LET filterByTk == c.action.params.filterByTk
        filterKeys == c.action.params.filterKeys
        uk1 == IF filterByTk # EMPTY THEN filterByTk ELSE EMPTY
    IN  IF Len(filterKeys) > 0 THEN join(filterKeys) ELSE uk1

\* formatAuditData(ctx)
formatAuditDataThrows(c) == formatResourceUkThrows(c)

formatAuditData(c) ==
    LET resourceName == c.action.resourceName
        resourceArray == split(resourceName)
        named == resourceName # EMPTY /\ resourceName # UNDEFINED
    IN  [uuid |-> c.reqId,
         dataSource |-> IF c.request.header.xDataSource # EMPTY
                        THEN c.request.header.xDataSource ELSE <<"main">>,
         resource |-> resourceName,
         association |-> IF named /\ Len(resourceArray) > 1
                         THEN resourceArray[2] ELSE EMPTY,
         collection |-> IF named
                        THEN (IF Len(resourceArray) > 1
                              THEN resourceArray[1] ELSE resourceName)
                        ELSE EMPTY,
         action |-> c.action.actionName,
         resourceUk |-> formatResourceUk(c),
         userId |-> c.state.currentUser.id,
         roleName |-> c.state.currentRole,
         ip |-> c.request.ip,
         ua |-> c.request.header.userAgent,
         status |-> c.status,
         metadata |-> NullMetadata]

\* ctx.body: not set, plain data (the empty string '' is plain data too, and
\* falsy), a Buffer, or a stream of one of the four classes of lines 15-18
NoBody == [kind |-> "none"]
PlainBody == [kind |-> "plain", value |-> <<"response-body">>]
WrappedBody == [kind |-> "plain", value |-> <<"wrapped", "response-body">>]
EmptyStringBody == [kind |-> "plain", value |-> EMPTY]
BufferBody == [kind |-> "Buffer"]
StreamClasses == {"Readable", "Writable", "Duplex", "Transform"}
StreamBody(class) == [kind |-> "stream", class |-> class]

\* let body = null (line 200)
NullBody == [kind |-> "null"]

\* Buffer.isBuffer(obj)
isBuffer(obj) == obj.kind = "Buffer"

\* isStream(obj), lines 13-20
isStream(obj) == obj.kind = "stream" /\ obj.class \in StreamClasses

\* if (ctx.body): an object is truthy, undefined and '' are not
bodyTruthy(obj) ==
    /\ obj.kind # "none"
    /\ obj.kind = "plain" => obj.value # EMPTY

\* getDefaultMetaData that leaves out the test of line 202
getDefaultMetaData_anyBody(c) ==
    [request |-> [params |-> c.request.params,
                  query |-> c.request.query,
                  body |-> c.request.body],
     response |-> [body |-> IF bodyTruthy(c.body) THEN c.body ELSE NullBody]]

\* getDefaultMetaData(ctx)
getDefaultMetaData(c) ==
    LET body == IF bodyTruthy(c.body) /\ ~isBuffer(c.body) /\ ~isStream(c.body)
                THEN c.body ELSE NullBody
    IN  [request |-> [params |-> c.request.params,
                      query |-> c.request.query,
                      body |-> c.request.body],
         response |-> [body |-> body]]

-----------------------------------------------------------------------------
(* output(ctx, reqId, status, metadata): an async function, run in pieces *)

\* the success flag of a record (line 308) and the failure flag (line 319)
StatusSuccess == 1
StatusFailure == 0

\* no record yet
NoRecord == [none |-> TRUE]

\* how a call of a hook ends: it returns a promise, or it throws
Returns == [kind |-> "promise"]
Throws(e) == [kind |-> "throws", error |-> e]

\* how logger.log(record) ends: a promise that resolves or rejects, or a throw
Resolves == [kind |-> "resolves"]
Rejects(e) == [kind |-> "rejects", error |-> e]

\* the state of one call of output, before the call
OutputNotCalled ==
    [pc |-> "notCalled",      \* notCalled, awaitUserInfo, awaitMetaData,
                              \* awaitDefaultMetaData, returned, rejected
     action |-> NULL,         \* const action (line 269)
     auditLog |-> NoRecord,   \* const auditLog (line 273)
     metadata |-> EmptyObject,      \* the metadata argument
     defaultMetaData |-> EmptyObject,  \* the promise of getDefaultMetaData
     hookCalls |-> <<>>,      \* history: the hooks called
     sink |-> <<>>,           \* history: the records passed to logger.log
     errorLog |-> <<>>,       \* history: the err.message given to ctx.log.error
     resolved |-> <<>>,       \* history: what the awaited hooks resolved with
     unhandled |-> <<>>,      \* history: rejections that nothing handles
     raised |-> <<>>]         \* history: the errors raised inside output

\* lines 300-302: the catch block; reading err.message of null throws out of it,
\* and the promise of output, which nobody holds, rejects
catch(o, err) ==
    IF messageThrows(err)
    THEN [o EXCEPT !.pc = "rejected", !.unhandled = Append(@, TypeErrorValue)]
    ELSE [o EXCEPT !.pc = "returned", !.errorLog = Append(@, messageOf(err))]

\* an error raised inside the try block
raise(o, err) == catch([o EXCEPT !.raised = Append(@, err)], err)

\* line 289 without its await: getMetaData is called and its promise is not
\* waited for, so the record goes on to the logger without the hook's result
output_metaData_notAwaited(o, c, call) ==
    IF Truthy(o.action.getMetaData)
    THEN LET o1 == [o EXCEPT !.hookCalls = Append(@, o.action.getMetaData)]
         IN  IF call.kind = "throws"
             THEN raise(o1, call.error)
             ELSE [o1 EXCEPT !.pc = "awaitDefaultMetaData"]
    ELSE [o EXCEPT !.defaultMetaData = getDefaultMetaData(c),
                   !.pc = "awaitDefaultMetaData"]

\* lines 288-298, up to the await: the stored rule is always an object, so the
\* else branch of line 295 is the same code as the one of line 291
output_metaData(o, c, call) ==
    IF Truthy(o.action.getMetaData)
    THEN LET o1 == [o EXCEPT !.hookCalls = Append(@, o.action.getMetaData)]
         IN  IF call.kind = "throws"
             THEN raise(o1, call.error)
             ELSE [o1 EXCEPT !.pc = "awaitMetaData"]
    ELSE [o EXCEPT !.defaultMetaData = getDefaultMetaData(c),
                   !.pc = "awaitDefaultMetaData"]

\* lines 267-278, up to the first await
output_start(o, res, c, reqId, status, metadata, call) ==
    LET action == getAction(res, c.action.actionName, c.action.resourceName)
    IN  IF action = NULL
        THEN [o EXCEPT !.pc = "returned"]
        ELSE IF formatAuditDataThrows(c)
        THEN raise([o EXCEPT !.action = action, !.metadata = metadata], TypeErrorValue)
        ELSE LET o1 == [o EXCEPT
                          !.action = action,
                          !.metadata = metadata,
                          !.auditLog = [formatAuditData(c) EXCEPT
                                          !.uuid = reqId, !.status = status]]
             IN  IF Truthy(action.getUserInfo)
                 THEN LET o2 == [o1 EXCEPT !.hookCalls = Append(@, action.getUserInfo)]
                      IN  IF call.kind = "throws"
                          THEN raise(o2, call.error)
                          ELSE [o2 EXCEPT !.pc = "awaitUserInfo"]
                 ELSE output_metaData(o1, c, call)

\* what a getUserInfo hook resolves with: nothing, or an object whose id and
\* roleName may be missing (EMPTY)
NoUserInfo == [given |-> FALSE]
UserInfos ==
    {NoUserInfo} \cup
    {[given |-> TRUE, id |-> <<"id-from-hook">>, roleName |-> <<"role-from-hook">>]}

\* lines 279-287 with the tests of lines 280 and 283 left out: a resolver's
\* result replaces both fields, missing ones included
output_userInfo_replaceBoth(o, c, userInfo, call) ==
    LET a2 == IF userInfo.given
              THEN [o.auditLog EXCEPT !.userId = userInfo.id,
                                      !.roleName = userInfo.roleName]
              ELSE o.auditLog
    IN  output_metaData([o EXCEPT !.auditLog = a2,
                                  !.resolved = Append(@, userInfo)], c, call)

\* lines 279-287, then on to the metadata
output_userInfo(o, c, userInfo, call) ==
    LET a1 == IF userInfo.given /\ userInfo.id # EMPTY
              THEN [o.auditLog EXCEPT !.userId = userInfo.id] ELSE o.auditLog
        a2 == IF userInfo.given /\ userInfo.roleName # EMPTY
              THEN [a1 EXCEPT !.roleName = userInfo.roleName] ELSE a1
    IN  output_metaData([o EXCEPT !.auditLog = a2,
                                  !.resolved = Append(@, userInfo)], c, call)

\* this.logger: not set, or the sink
LOGGER_UNSET == "undefined"
Loggers == {"sink"}

\* line 299: this.logger.log(auditLog), its promise dropped
output_log(o, lg, outcome) ==
    IF lg = LOGGER_UNSET
    THEN raise(o, TypeErrorValue)
    ELSE LET o1 == [o EXCEPT !.sink = Append(@, o.auditLog)]
         IN  IF outcome.kind = "throws"
             THEN raise(o1, outcome.error)
             ELSE IF outcome.kind = "rejects"
             THEN [o1 EXCEPT !.pc = "returned",
                             !.raised = Append(@, outcome.error),
                             !.unhandled = Append(@, outcome.error)]
             ELSE [o1 EXCEPT !.pc = "returned"]

\* line 290 with the spread the other way round: { ...extra, ...metadata }
output_extra_callerWins(o, lg, extra, outcome) ==
    output_log([o EXCEPT !.auditLog.metadata = Spread(extra, o.metadata),
                         !.resolved = Append(@, extra)], lg, outcome)

\* lines 289-290 after the await, then line 299
output_extra(o, lg, extra, outcome) ==
    output_log([o EXCEPT !.auditLog.metadata = Spread(o.metadata, extra),
                         !.resolved = Append(@, extra)], lg, outcome)

\* lines 292-293 (296-297) after the await, then line 299
output_default(o, lg, outcome) ==
    output_log([o EXCEPT !.auditLog.metadata = Spread(o.metadata, o.defaultMetaData)],
               lg, outcome)

-----------------------------------------------------------------------------
(* middleware() *)

NoValue == [type |-> "none"]

\* the state of one call of the middleware function, before the call
MiddlewareIdle ==
    [pc |-> "idle",           \* idle, awaitNext, resolved, rejected
     reqId |-> 0,             \* const reqId (line 307)
     status |-> StatusSuccess,   \* let status (line 308)
     metadata |-> EmptyObject,   \* let metadata (line 309)
     nextCalls |-> 0,         \* history: calls of next()
     outputCalls |-> 0,       \* history: calls of this.output
     loggerSeen |-> LOGGER_UNSET,   \* history: this.logger as line 322 read it
     thrown |-> NoValue,      \* history: what next() rejected with
     completed |-> NoValue,   \* history: ctx as it was when next() settled
     result |-> NoValue]      \* what the middleware rejected with

\* lines 312-320: the catch block; err.message of null throws before status = 0
\* is reached, and that TypeError is what leaves the block
middleware_catch(m, c, err) ==
    IF messageThrows(err)
    THEN [m EXCEPT !.thrown = err, !.result = TypeErrorValue]
    ELSE [m EXCEPT !.thrown = err,
                   !.metadata = [status |-> c.status, errMsg |-> messageOf(err)],
                   !.status = StatusFailure,
                   !.result = err]

\* the emission placed after "await next()" inside the try block instead of in
\* a finally block: it runs on the normal exit path only
middleware_finally_normalPathOnly(m, lg, pc) ==
    [m EXCEPT !.pc = pc,
              !.loggerSeen = lg,
              !.outputCalls = IF lg # LOGGER_UNSET /\ pc = "resolved" THEN @ + 1 ELSE @]

\* lines 321-325: the finally block, as far as the middleware's own state goes
middleware_finally(m, lg, pc) ==
    [m EXCEPT !.pc = pc,
              !.loggerSeen = lg,
              !.outputCalls = IF lg # LOGGER_UNSET THEN @ + 1 ELSE @]

-----------------------------------------------------------------------------
(* The state machine *)

MaxRegs == 3
MaxReqs == 2

Reqs == 1..MaxReqs

\* the batches registerActions is called with: none, one or two elements
Batches ==
    {<<>>} \cup {<<a>> : a \in ActionInputs}
           \cup {<<a, b>> : a \in ActionInputs, b \in ActionInputs}

\* the (resourceName, actionName) of the requests
RequestTargets == {<<USER, CREATE>>, <<POST, LIST>>}

\* the context of request r when it reaches the middleware
Context(r, target, params) ==
    [reqId |-> r,
     action |-> [resourceName |-> target[1], actionName |-> target[2],
                 params |-> params],
     request |-> [header |-> [xDataSource |-> EMPTY, userAgent |-> <<"agent">>],
                  ip |-> <<"10.0.0.1">>,
                  params |-> <<"params">>, query |-> <<"query">>,
                  body |-> <<"request-body">>],
     state |-> [currentUser |-> [id |-> <<"id-from-session">>],
                currentRole |-> <<"role-from-session">>],
     status |-> 404,
     body |-> NoBody]

\* the values handlers throw, and the ones hooks and the sink fail with
HandlerErrors == {Boom, Oops, NullValue}
HookErrors == {HookError}
HookCalls == {Returns} \cup {Throws(e) : e \in HookErrors}
LogOutcomes == {Resolves, Rejects(SinkError), Throws(SinkError)}

\* what a getMetaData hook resolves with
MetaDatas == {[extra |-> <<"from-e1">>]}

Init ==
    /\ resources = EmptyMap
    /\ regLog = <<>>
    /\ logger = LOGGER_UNSET
    /\ ctx = [r \in Reqs |-> Context(r, <<USER, CREATE>>, ParamsGiven)]
    /\ mw = [r \in Reqs |-> MiddlewareIdle]
    /\ out = [r \in Reqs |-> OutputNotCalled]

RegisterAction(action) ==
    /\ Len(regLog) + 1 <= MaxRegs
    /\ resources' = registerAction(resources, action)
    /\ regLog' = Append(regLog, action)
    /\ UNCHANGED <<logger, ctx, mw, out>>

RegisterActions(actions) ==
    /\ Len(regLog) + Len(actions) <= MaxRegs
    /\ resources' = registerActions(resources, actions)
    /\ regLog' = regLog \o actions
    /\ UNCHANGED <<logger, ctx, mw, out>>

Next ==
    \/ \E action \in ActionInputs : RegisterAction(action)
    \/ \E actions \in Batches : RegisterActions(actions)

\* the registry on its own: any sequence of registrations
Spec == Init /\ [][Next]_vars

\* setLogger(logger)
SetLogger(lg) ==
    /\ logger' = lg
    /\ UNCHANGED <<resources, regLog, ctx, mw, out>>

\* lines 306-311: a request enters the middleware, which calls next()
Enter(r, target, params) ==
    /\ mw[r].pc = "idle"
    /\ ctx' = [ctx EXCEPT ![r] = Context(r, target, params)]
    /\ mw' = [mw EXCEPT ![r] = [@ EXCEPT !.pc = "awaitNext",
                                         !.reqId = ctx'[r].reqId,
                                         !.status = StatusSuccess,
                                         !.metadata = EmptyObject,
                                         !.nextCalls = @ + 1]]
    /\ UNCHANGED <<resources, regLog, logger, out>>

\* the finally block with status and metadata kept in fields of the manager
\* instead of locals of the call: a failure of another request is what
\* output is given
FinallyOutput_sharedOutcome(r, c, m, call) ==
    LET failed == {q \in Reqs \ {r} : mw[q].status = StatusFailure}
        shared == IF failed = {} THEN m ELSE mw[CHOOSE q \in failed : TRUE]
    IN  IF logger # LOGGER_UNSET
        THEN output_start(out[r], resources, c, m.reqId, shared.status,
                          shared.metadata, call)
        ELSE out[r]

\* the finally block's call of output, if there is a logger
FinallyOutput(r, c, m, call) ==
    IF logger # LOGGER_UNSET
    THEN output_start(out[r], resources, c, m.reqId, m.status, m.metadata, call)
    ELSE out[r]

\* next() resolves, the handler having set the response status and body;
\* lines 321-325 run
HandlerReturns(r, status, body, call) ==
    /\ mw[r].pc = "awaitNext"
    /\ LET c == [ctx[r] EXCEPT !.status = status, !.body = body]
       IN  /\ ctx' = [ctx EXCEPT ![r] = c]
           /\ mw' = [mw EXCEPT ![r] =
                        [middleware_finally(@, logger, "resolved") EXCEPT !.completed = c]]
           /\ out' = [out EXCEPT ![r] = FinallyOutput(r, c, mw[r], call)]
    /\ UNCHANGED <<resources, regLog, logger>>

\* next() resolves with status 200 and a plain body
NextResolves(r, call) == HandlerReturns(r, 200, PlainBody, call)

\* next() rejects with err: lines 312-320, then 321-325
NextRejects(r, err, call) ==
    /\ mw[r].pc = "awaitNext"
    /\ LET c == [ctx[r] EXCEPT !.status = 500]
           m == middleware_catch(mw[r], c, err)
       IN  /\ ctx' = [ctx EXCEPT ![r] = c]
           /\ mw' = [mw EXCEPT ![r] =
                        [middleware_finally(m, logger, "rejected") EXCEPT !.completed = c]]
           /\ out' = [out EXCEPT ![r] = FinallyOutput(r, c, m, call)]
    /\ UNCHANGED <<resources, regLog, logger>>

\* the promise of getUserInfo resolves: lines 279-288
UserInfoResolves(r, userInfo, call) ==
    /\ out[r].pc = "awaitUserInfo"
    /\ out' = [out EXCEPT ![r] = output_userInfo(@, ctx[r], userInfo, call)]
    /\ UNCHANGED <<resources, regLog, logger, ctx, mw>>

\* the promise of getUserInfo rejects: lines 300-302
UserInfoRejects(r, err) ==
    /\ out[r].pc = "awaitUserInfo"
    /\ out' = [out EXCEPT ![r] = raise(@, err)]
    /\ UNCHANGED <<resources, regLog, logger, ctx, mw>>

\* the promise of getMetaData resolves: lines 290, 299
MetaDataResolves(r, extra, outcome) ==
    /\ out[r].pc = "awaitMetaData"
    /\ out' = [out EXCEPT ![r] = output_extra(@, logger, extra, outcome)]
    /\ UNCHANGED <<resources, regLog, logger, ctx, mw>>

\* the promise of getMetaData rejects: lines 300-302
MetaDataRejects(r, err) ==
    /\ out[r].pc = "awaitMetaData"
    /\ out' = [out EXCEPT ![r] = raise(@, err)]
    /\ UNCHANGED <<resources, regLog, logger, ctx, mw>>

\* the promise of getDefaultMetaData resolves: lines 293 (297), 299
DefaultMetaDataResolves(r, outcome) ==
    /\ out[r].pc = "awaitDefaultMetaData"
    /\ out' = [out EXCEPT ![r] = output_default(@, logger, outcome)]
    /\ UNCHANGED <<resources, regLog, logger, ctx, mw>>

\* the registrations made at startup, before the requests
StartupBatches ==
    {<<>>,
     <<[type |-> "string", name |-> BareToken(CREATE)]>>,
     <<[type |-> "object", name |-> QualifiedToken(USER, CREATE),
        getMetaData |-> "e1", getUserInfo |-> "u1"]>>,
     <<[type |-> "string", name |-> BareToken(CREATE)],
       [type |-> "object", name |-> QualifiedToken(USER, CREATE),
        getMetaData |-> "e1", getUserInfo |-> NoHookUndefined]>>,
     <<[type |-> "object", name |-> WildcardToken(USER),
        getMetaData |-> NoHookUndefined, getUserInfo |-> "u1"]>>}

InitPipeline ==
    /\ \E actions \in StartupBatches :
          /\ resources = registerActions(EmptyMap, actions)
          /\ regLog = actions
    /\ logger = LOGGER_UNSET
    /\ ctx = [r \in Reqs |-> Context(r, <<USER, CREATE>>, ParamsGiven)]
    /\ mw = [r \in Reqs |-> MiddlewareIdle]
    /\ out = [r \in Reqs |-> OutputNotCalled]

NextPipeline ==
    \/ \E lg \in Loggers : SetLogger(lg)
    \/ \E r \in Reqs, target \in RequestTargets, params \in {ParamsGiven, ParamsUndefined} :
          Enter(r, target, params)
    \/ \E r \in Reqs, call \in HookCalls : NextResolves(r, call)
    \/ \E r \in Reqs, err \in HandlerErrors, call \in HookCalls : NextRejects(r, err, call)
    \/ \E r \in Reqs, userInfo \in UserInfos, call \in HookCalls :
          UserInfoResolves(r, userInfo, call)
    \/ \E r \in Reqs, err \in HookErrors : UserInfoRejects(r, err)
    \/ \E r \in Reqs, extra \in MetaDatas, outcome \in LogOutcomes :
          MetaDataResolves(r, extra, outcome)
    \/ \E r \in Reqs, err \in HookErrors : MetaDataRejects(r, err)
    \/ \E r \in Reqs, outcome \in LogOutcomes : DefaultMetaDataResolves(r, outcome)

\* the requests, on a registry filled at startup
SpecPipeline == InitPipeline /\ [][NextPipeline]_vars

-----------------------------------------------------------------------------
(* The record of one request, over the inputs the record is built from *)

MaxKeys == 2

\* the request whose record is built
TheRequest == CHOOSE r \in Reqs : \A q \in Reqs : r <= q

\* ctx.action.params: filterByTk absent or given, filterKeys absent, empty or
\* a list of up to MaxKeys keys
Keys == {<<"k1">>, <<"k2">>}
KeyLists == UNION {[1..n -> Keys] : n \in 0..MaxKeys}
FilterTokens == {EMPTY, <<"tk">>}
ParamsSets == [defined : {TRUE}, filterByTk : FilterTokens, filterKeys : KeyLists]

\* what a handler leaves in ctx.status and ctx.body
ResponseStatuses == {200, 201}
Bodies ==
    {NoBody, PlainBody, EmptyStringBody, BufferBody}
      \cup {StreamBody(class) : class \in StreamClasses}

\* what a getUserInfo hook resolves with: nothing, or an object with or
\* without id and roleName
PartialUserInfos ==
    {NoUserInfo} \cup
    [given : {TRUE}, id : {EMPTY, <<"id-from-hook">>},
     roleName : {EMPTY, <<"role-from-hook">>}]

\* what a getMetaData hook resolves with
RecordMetaDatas ==
    MetaDatas \cup
    {EmptyObject,
     [request |-> [params |-> <<"from-e1">>, query |-> <<"from-e1">>,
                   body |-> <<"from-e1">>]]}

\* the metadata argument of a direct call of output
CallerMetaDatas ==
    {EmptyObject,
     [status |-> 500, errMsg |-> "boom"],
     [request |-> [params |-> <<"from-caller">>, query |-> <<"from-caller">>,
                   body |-> <<"from-caller">>]],
     [extra |-> <<"extra-from-caller">>, note |-> <<"note-from-caller">>]}

\* output(ctx, ctx.reqId, status, metadata) called directly, up to its first await
OutputCalled(r, c, status, metadata) ==
    /\ mw[r].pc = "idle"
    /\ out[r].pc = "notCalled"
    /\ ctx' = [ctx EXCEPT ![r] = c]
    /\ out' = [out EXCEPT ![r] =
                  output_start(@, resources, c, c.reqId, status, metadata, Returns)]
    /\ UNCHANGED <<resources, regLog, logger, mw>>

\* code that runs after the middleware has returned (an outer middleware)
\* replaces ctx.body
ContextChanges(r, body) ==
    /\ mw[r].pc = "resolved"
    /\ ctx[r].body # body
    /\ ctx' = [ctx EXCEPT ![r].body = body]
    /\ UNCHANGED <<resources, regLog, logger, mw, out>>

\* the request enters the middleware; output has not been called directly
RequestEnters(r, params) ==
    /\ out[r].pc = "notCalled"
    /\ Enter(r, <<USER, CREATE>>, params)

InitRecord ==
    /\ \E actions \in StartupBatches :
          /\ resources = registerActions(EmptyMap, actions)
          /\ regLog = actions
    /\ logger \in Loggers
    /\ ctx = [r \in Reqs |-> Context(r, <<USER, CREATE>>, ParamsGiven)]
    /\ mw = [r \in Reqs |-> MiddlewareIdle]
    /\ out = [r \in Reqs |-> OutputNotCalled]

NextRecord ==
    \/ \E params \in ParamsSets : RequestEnters(TheRequest, params)
    \/ \E status \in ResponseStatuses, body \in Bodies :
          HandlerReturns(TheRequest, status, body, Returns)
    \/ \E body \in Bodies, status \in {StatusSuccess, StatusFailure},
           metadata \in CallerMetaDatas :
          OutputCalled(TheRequest,
                       [Context(TheRequest, <<USER, CREATE>>, ParamsGiven)
                          EXCEPT !.status = 200, !.body = body],
                       status, metadata)
    \/ \E userInfo \in PartialUserInfos : UserInfoResolves(TheRequest, userInfo, Returns)
    \/ \E extra \in RecordMetaDatas : MetaDataResolves(TheRequest, extra, Resolves)
    \/ DefaultMetaDataResolves(TheRequest, Resolves)
    \/ ContextChanges(TheRequest, WrappedBody)

\* one request on a registry filled at startup, a logger set, hooks and sink
\* that do not fail
SpecRecord == InitRecord /\ [][NextRecord]_vars

-----------------------------------------------------------------------------
(* What the history says: these read regLog only, never the registry *)

\* the arguments getAction is asked with
QueryActions == ActionNames \cup {UPDATE, LIST}
QueryResources == ResourceNames \cup {POST, EMPTY, UNDEFINED}

\* resources named by the caller: neither absent nor the '__default__' key
NamedResources == {USER, POST}

\* the slot (resourceKey, actionKey) a token of one of the three shapes stands for
Slot(token) == <<parsedNames(token).resourceName, parsedNames(token).actionName>>

Slots == {Slot(t) : t \in WellFormedTokens}

\* the calls that registered something at the slot
CallsAt(slot) ==
    {i \in 1..Len(regLog) : /\ ~registerActionReturnsEarly(regLog[i])
                            /\ Slot(regLog[i].name) = slot}

\* the calls made with the token
CallsNamed(token) == {i \in 1..Len(regLog) : regLog[i].name = token}

Last(S) == CHOOSE i \in S : \A j \in S : j <= i

\* the rule a registration gives: its token and exactly the hooks passed with it
RuleGiven(action) ==
    [name |-> action.name,
     getMetaData |-> IF action.type = "object" /\ action.getMetaData \in MetaDataHooks
                     THEN action.getMetaData ELSE NoHookUndefined,
     getUserInfo |-> IF action.type = "object" /\ action.getUserInfo \in UserInfoHooks
                     THEN action.getUserInfo ELSE NoHookUndefined]

\* the token's registration is the most recent one of its slot
Current(token) ==
    /\ CallsNamed(token) # {}
    /\ Last(CallsAt(Slot(token))) = Last(CallsNamed(token))

\* a rule has been registered under the resource
HasBucket(r) == \E i \in 1..Len(regLog) :
    ~registerActionReturnsEarly(regLog[i]) /\ Slot(regLog[i].name)[1] = r

-----------------------------------------------------------------------------
(* C1 *)

\* C1 as stated: for every R and A of the grammar, when only the tokens 'A',
\* 'R:*' and 'R:A' have been registered, in whatever order, getAction(A, R) is
\* the rule registered as 'R:A' if there is one, and the 'R:*' rule when only
\* 'R:*' and 'A' are registered.
C1_Specificity(R, A) ==
    LET tA == BareToken(A)
        tW == WildcardToken(R)
        tQ == QualifiedToken(R, A)
    IN  (\A i \in 1..Len(regLog) : regLog[i].name \in {tA, tW, tQ}) =>
            /\ CallsNamed(tQ) # {} =>
                  getAction(resources, A, R) = RuleGiven(regLog[Last(CallsNamed(tQ))])
            /\ (CallsNamed(tQ) = {} /\ CallsNamed(tW) # {} /\ CallsNamed(tA) # {}) =>
                  getAction(resources, A, R) = RuleGiven(regLog[Last(CallsNamed(tW))])

\* C1: specificity ordering holds for every resource name R and action name A
\* the grammar accepts, '__default__' included.
C1_SpecificityOrdering ==
    \A R \in ResourceNames, A \in ActionNames : C1_Specificity(R, A)

\* C1, names other than '__default__': the ordering holds.
C1_SpecificityOrderingOrdinaryNames ==
    \A R \in ResourceNames \ {DEFAULT}, A \in ActionNames \ {DEFAULT} :
        C1_Specificity(R, A)

-----------------------------------------------------------------------------
(* C2 *)

-----------------------------------------------------------------------------
(* C3 *)

\* C3: once the bare token A has been registered, getAction(A, R) returns a
\* rule for every resource R, whatever else is registered.
C3_BareActionAuditsEveryResource ==
    \A A \in ActionNames :
        CallsNamed(BareToken(A)) # {} =>
            \A R \in QueryResources : getAction(resources, A, R) # NULL

-----------------------------------------------------------------------------
(* C4 *)

\* C4: when 'R:*' is the registration in force at its slot, getAction(a, R)
\* is that rule for every action a without an exact rule under R, and
\* getAction(a, R') is never that rule for another resource R' nor without a
\* resource; R ranges over the grammar's names, '__default__' included.
C4_Wildcard(R) ==
    Current(WildcardToken(R)) =>
        LET rule == RuleGiven(regLog[Last(CallsNamed(WildcardToken(R)))])
        IN  /\ \A a \in QueryActions :
                  CallsAt(<<R, a>>) = {} => getAction(resources, a, R) = rule
            /\ \A a \in QueryActions, R2 \in QueryResources \ {R} :
                  getAction(resources, a, R2) # rule

C4_ResourceWildcard == \A R \in ResourceNames : C4_Wildcard(R)

\* C4, names other than '__default__': the wildcard rule holds.
C4_ResourceWildcardOrdinaryNames ==
    \A R \in ResourceNames \ {DEFAULT} : C4_Wildcard(R)

-----------------------------------------------------------------------------
(* C10 *)

\* C10: every slot holds exactly the rule given by the most recent
\* registration that parsed to it, with that registration's hooks only, and
\* getAction(actionKey, resourceKey) returns it; a slot nothing parsed to is
\* empty.
C10_LastWriteWins ==
    \A slot \in Slots :
        LET present == MapHas(resources, slot[1]) /\ MapHas(resources[slot[1]], slot[2])
        IN  IF CallsAt(slot) = {}
            THEN ~present
            ELSE /\ present
                 /\ resources[slot[1]][slot[2]] = RuleGiven(regLog[Last(CallsAt(slot))])
                 /\ getAction(resources, slot[2], slot[1])
                      = RuleGiven(regLog[Last(CallsAt(slot))])

\* C10 witness: a token registered with both hooks was registered again
\* without hooks, and the rule resolved has neither.
C10_Witness ==
    \E i, j \in 1..Len(regLog) :
        /\ i < j
        /\ regLog[i].type = "object"
        /\ regLog[i].getMetaData \in MetaDataHooks
        /\ regLog[i].getUserInfo \in UserInfoHooks
        /\ regLog[j].type = "string"
        /\ regLog[i].name = regLog[j].name
        /\ j = Last(CallsAt(Slot(regLog[j].name)))
        /\ LET slot == Slot(regLog[j].name)
           IN  /\ getAction(resources, slot[2], slot[1]).getMetaData = NoHookUndefined
               /\ getAction(resources, slot[2], slot[1]).getUserInfo = NoHookUndefined

-----------------------------------------------------------------------------
(* C11 *)

\* a token that matches none of the three grammars
Malformed(token) ==
    /\ ~nameRegex(token)
    /\ ~resourceWildcardRegex(token)
    /\ ~resourceAndActionRegex(token)

\* the registrations made so far, those with a malformed token left out
WellFormedCalls == SelectSeq(regLog, LAMBDA action : ~Malformed(action.name))

\* C11: the registry is the one the well-formed registrations alone give, in
\* their order: a registration with a malformed token creates no bucket, adds
\* or replaces no entry and changes no getAction result, and the other
\* elements of a batch are registered.
C11_MalformedTokenIsNoOp ==
    LET without == registerActions(EmptyMap, WellFormedCalls)
    IN  /\ resources = without
        /\ \A a \in QueryActions \cup {EMPTY}, r \in QueryResources :
              getAction(resources, a, r) = getAction(without, a, r)
        /\ (\A i \in 1..Len(regLog) : Malformed(regLog[i].name)) => resources = EmptyMap

\* C11 witness: a malformed token was registered between two well-formed
\* ones, and both of these resolve.
C11_Witness ==
    /\ Len(regLog) = 3
    /\ ~Malformed(regLog[1].name)
    /\ Malformed(regLog[2].name)
    /\ ~Malformed(regLog[3].name)
    /\ Slot(regLog[1].name) # Slot(regLog[3].name)
    /\ DOMAIN resources = {Slot(regLog[1].name)[1], Slot(regLog[3].name)[1]}
    /\ resources[Slot(regLog[1].name)[1]][Slot(regLog[1].name)[2]].name = regLog[1].name
    /\ resources[Slot(regLog[3].name)[1]][Slot(regLog[3].name)[2]].name = regLog[3].name

-----------------------------------------------------------------------------
(* What a request's history says *)

\* the middleware has settled: its caller has the outcome
Settled(r) == mw[r].pc \in {"resolved", "rejected"}

\* the handler threw
HandlerThrew(r) == mw[r].thrown # NoValue

\* getAction(actionName, resourceName) returns a rule for the request
RuleMatches(r) ==
    getAction(resources, ctx[r].action.actionName, ctx[r].action.resourceName) # NULL

\* the call of output has come to its end
OutputEnded(r) == out[r].pc \in {"returned", "rejected"}

-----------------------------------------------------------------------------
(* C5 *)

\* C5 as stated: once the middleware has settled, next() was called exactly
\* once and output was started exactly once, on either exit path, and
\* logger.log was called at most once.
C5_ExactlyOnce ==
    \A r \in Reqs :
        /\ Settled(r) => (mw[r].nextCalls = 1 /\ mw[r].outputCalls = 1)
        /\ Len(out[r].sink) <= 1

\* C5, amended: next() is called exactly once; output is started exactly once
\* on either exit path when a logger is set at that moment and not at all
\* otherwise; logger.log is called at most once, and exactly once when a
\* logger was set, a rule matches and output ended without raising an error.
C5_ExactlyOnceWhenLogger ==
    \A r \in Reqs :
        /\ mw[r].nextCalls = (IF mw[r].pc = "idle" THEN 0 ELSE 1)
        /\ mw[r].outputCalls =
              (IF Settled(r) /\ mw[r].loggerSeen # LOGGER_UNSET THEN 1 ELSE 0)
        /\ (out[r].pc = "notCalled") <=> (mw[r].outputCalls = 0)
        /\ Len(out[r].sink) <= 1
        /\ (/\ mw[r].outputCalls = 1
            /\ RuleMatches(r)
            /\ out[r].pc = "returned"
            /\ out[r].raised = <<>>) => Len(out[r].sink) = 1

\* C5 witness: a request whose handler threw and a request whose handler
\* returned have each been emitted once.
C5_Witness ==
    \E r, q \in Reqs :
        /\ mw[r].pc = "rejected"
        /\ mw[r].outputCalls = 1
        /\ Len(out[r].sink) = 1
        /\ mw[q].pc = "resolved"
        /\ mw[q].outputCalls = 1
        /\ Len(out[q].sink) = 1

-----------------------------------------------------------------------------
(* C6 *)

\* C6: when the handler rejects with a value, the middleware rejects with that
\* very value, whatever it is.
C6_FailurePropagatedUnchanged ==
    \A r \in Reqs :
        /\ (mw[r].pc = "rejected") <=> (Settled(r) /\ HandlerThrew(r))
        /\ mw[r].pc = "rejected" => mw[r].result = mw[r].thrown

\* C6, values that have a message or are not null: the same value is rethrown.
C6_FailurePropagatedUnlessNull ==
    \A r \in Reqs :
        /\ (mw[r].pc = "rejected") <=> (Settled(r) /\ HandlerThrew(r))
        /\ (mw[r].pc = "rejected" /\ ~messageThrows(mw[r].thrown))
              => mw[r].result = mw[r].thrown

-----------------------------------------------------------------------------
(* C7 *)

\* C7: for a request whose handler threw, every record handed to the logger
\* has the failure flag, errMsg equal to the error's message and status equal
\* to the context's HTTP status at that time; there is at most one, and
\* exactly one once output has ended without raising an error.
C7_FailedRequestAuditedAsFailed ==
    \A r \in Reqs :
        HandlerThrew(r) =>
            /\ \A i \in 1..Len(out[r].sink) :
                  LET rec == out[r].sink[i]
                  IN  /\ rec.status # StatusSuccess
                      /\ rec.status = StatusFailure
                      /\ "errMsg" \in DOMAIN rec.metadata
                      /\ rec.metadata.errMsg = messageOf(mw[r].thrown)
                      /\ "status" \in DOMAIN rec.metadata
                      /\ rec.metadata.status = ctx[r].status
            /\ Len(out[r].sink) <= 1
            /\ (/\ mw[r].loggerSeen # LOGGER_UNSET
                /\ RuleMatches(r)
                /\ out[r].pc = "returned"
                /\ out[r].raised = <<>>) => Len(out[r].sink) = 1

\* C7, handlers that throw a value whose message can be read: the record is a
\* failure record.
C7_FailedRequestAuditedUnlessNull ==
    \A r \in Reqs :
        (HandlerThrew(r) /\ ~messageThrows(mw[r].thrown)) =>
            \A i \in 1..Len(out[r].sink) :
                LET rec == out[r].sink[i]
                IN  /\ rec.status = StatusFailure
                    /\ "errMsg" \in DOMAIN rec.metadata
                    /\ rec.metadata.errMsg = messageOf(mw[r].thrown)
                    /\ "status" \in DOMAIN rec.metadata
                    /\ rec.metadata.status = ctx[r].status

-----------------------------------------------------------------------------
(* C8 *)

\* C8: every error raised inside output is caught there, reported through
\* ctx.log.error and swallowed: once output has ended, each raised error has
\* its report, the promise of output has not rejected and no rejection is
\* left unhandled.
C8_AuditFailuresContained ==
    \A r \in Reqs :
        /\ out[r].pc # "rejected"
        /\ out[r].unhandled = <<>>
        /\ OutputEnded(r) => Len(out[r].errorLog) = Len(out[r].raised)

\* C8, the part about the caller: an audit failure never turns a normal
\* return into an error nor replaces the handler's error.
C8_CallerUnaffectedByAuditFailure ==
    \A r \in Reqs :
        out[r].raised # <<>> =>
            /\ mw[r].pc = "resolved" <=> ~HandlerThrew(r)
            /\ (mw[r].pc = "rejected" /\ ~messageThrows(mw[r].thrown))
                  => mw[r].result = mw[r].thrown

-----------------------------------------------------------------------------
(* C9 *)

\* C9, the part about the audit: logger.log is called only if a logger was
\* set and a rule matches; otherwise no record is built, no hook is called
\* and the sink is not called.
C9_NothingEmitted(r) ==
    /\ out[r].sink # <<>> => (mw[r].loggerSeen # LOGGER_UNSET /\ RuleMatches(r))
    /\ (Settled(r) /\ (mw[r].loggerSeen = LOGGER_UNSET \/ ~RuleMatches(r))) =>
          /\ out[r].auditLog = NoRecord
          /\ out[r].hookCalls = <<>>
          /\ out[r].sink = <<>>
          /\ out[r].pc \in {"notCalled", "returned"}

\* C9: skipped requests produce nothing, while the handler still runs once
\* and its outcome, return or error, reaches the caller unchanged.
C9_SkippedRequestsProduceNothing ==
    \A r \in Reqs :
        /\ C9_NothingEmitted(r)
        /\ (Settled(r) /\ (mw[r].loggerSeen = LOGGER_UNSET \/ ~RuleMatches(r))) =>
              /\ mw[r].nextCalls = 1
              /\ mw[r].pc = "resolved" <=> ~HandlerThrew(r)
              /\ mw[r].pc = "rejected" => mw[r].result = mw[r].thrown

\* C9, the part about the audit alone.
C9_SkippedRequestsEmitNothing == \A r \in Reqs : C9_NothingEmitted(r)

-----------------------------------------------------------------------------
(* What the record's history says *)

\* the records handed to logger.log for the request
Emitted(r) == {out[r].sink[i] : i \in 1..Len(out[r].sink)}

\* the matched rule has a metadata extractor, a user resolver
HasExtractor(r) == out[r].action # NULL /\ Truthy(out[r].action.getMetaData)
HasResolver(r) == out[r].action # NULL /\ Truthy(out[r].action.getUserInfo)

\* the handler of the request returned normally through the middleware
HandlerReturned(r) == mw[r].pc = "resolved"

\* the record states the HTTP status s, in its status field or in its metadata
HttpStatusRecorded(rec, s) ==
    \/ rec.status = s
    \/ "status" \in DOMAIN rec.metadata /\ rec.metadata.status = s

\* the request fields of the context, as default metadata holds them
RequestFields(c) ==
    [params |-> c.request.params, query |-> c.request.query, body |-> c.request.body]

-----------------------------------------------------------------------------
(* C12 *)

\* C12: the record of a request whose handler returned normally, under a rule
\* without metadata extractor, has the success flag, states the response
\* status the context had, and its metadata holds the request params, query
\* and body, and the response body when that is plain data.
C12_SuccessRecord ==
    \A r \in Reqs :
        (HandlerReturned(r) /\ ~HasExtractor(r)) =>
            \A rec \in Emitted(r) :
                /\ rec.status = StatusSuccess
                /\ HttpStatusRecorded(rec, mw[r].completed.status)
                /\ "request" \in DOMAIN rec.metadata
                /\ rec.metadata.request = RequestFields(mw[r].completed)
                /\ "response" \in DOMAIN rec.metadata
                /\ mw[r].completed.body.kind = "plain" =>
                      rec.metadata.response.body = mw[r].completed.body

\* C12 without the HTTP status: the flag and the request fields are as
\* claimed, and so is a non-empty plain body under a rule without user
\* resolver.
C12_SuccessRecordButStatus ==
    \A r \in Reqs :
        (HandlerReturned(r) /\ ~HasExtractor(r)) =>
            \A rec \in Emitted(r) :
                /\ rec.status = StatusSuccess
                /\ ~HttpStatusRecorded(rec, mw[r].completed.status)
                /\ rec.metadata.request = RequestFields(mw[r].completed)
                /\ (/\ mw[r].completed.body.kind = "plain"
                    /\ bodyTruthy(mw[r].completed.body)
                    /\ ~HasResolver(r)) =>
                      rec.metadata.response.body = mw[r].completed.body

-----------------------------------------------------------------------------
(* C13 *)

\* a record whose metadata is caller metadata merged with default metadata
DefaultRecords(r) == IF HasExtractor(r) THEN {} ELSE Emitted(r)

\* C13 as stated: when ctx.body is a Buffer or a stream, the default metadata
\* of the record has no response body field at all.
C13_BinaryBodyFieldOmitted ==
    \A r \in Reqs :
        (isBuffer(ctx[r].body) \/ isStream(ctx[r].body)) =>
            \A rec \in DefaultRecords(r) :
                "body" \notin DOMAIN rec.metadata.response

\* C13, amended: when ctx.body is a Buffer or a stream, the response body
\* field of the default metadata is there and is null; and whatever ctx.body
\* is, default metadata never holds a Buffer or a stream.
C13_BinaryBodyRecordedAsNull ==
    \A r \in Reqs :
        \A rec \in DefaultRecords(r) :
            /\ "response" \in DOMAIN rec.metadata
            /\ DOMAIN rec.metadata.response = {"body"}
            /\ ~isBuffer(rec.metadata.response.body)
            /\ ~isStream(rec.metadata.response.body)
            /\ (isBuffer(ctx[r].body) \/ isStream(ctx[r].body)) =>
                  /\ rec.metadata.response.body = NullBody
                  /\ rec.metadata.response.body # ctx[r].body

\* C13 witness: a record was emitted for a request whose body is a Transform
\* stream, with a null response body.
C13_Witness ==
    \E r \in Reqs :
        /\ ctx[r].body = StreamBody("Transform")
        /\ \E rec \in DefaultRecords(r) : rec.metadata.response.body = NullBody

-----------------------------------------------------------------------------
(* C14 *)

\* what the extractor of the request's rule resolved with: the last result
ExtractorOutput(r) == out[r].resolved[Len(out[r].resolved)]

\* the keys of default metadata
DefaultKeys == {"request", "response"}

\* C14: under a rule with a metadata extractor, the record's metadata has
\* exactly the keys of the caller's metadata and of the extractor's output,
\* with the extractor's value for each of its keys and the caller's value for
\* the others; a default field is there only if one of the two supplied it;
\* and getDefaultMetaData is called only under a rule without extractor.
C14_ExtractorReplacesDefaults ==
    \A r \in Reqs :
        /\ HasExtractor(r) => out[r].defaultMetaData = EmptyObject
        /\ HasExtractor(r) =>
              \A rec \in Emitted(r) :
                  LET caller == out[r].metadata
                      extra == ExtractorOutput(r)
                  IN  /\ DOMAIN rec.metadata = DOMAIN caller \cup DOMAIN extra
                      /\ \A k \in DOMAIN extra : rec.metadata[k] = extra[k]
                      /\ \A k \in DOMAIN caller \ DOMAIN extra :
                            rec.metadata[k] = caller[k]
                      /\ \A k \in DefaultKeys :
                            k \in DOMAIN rec.metadata =>
                                k \in DOMAIN caller \cup DOMAIN extra

\* C14 witness: caller and extractor both gave the key 'extra', the caller
\* alone the key 'note'; the record has the extractor's 'extra', the caller's
\* 'note' and no default field.
C14_Witness ==
    \E r \in Reqs :
        /\ HasExtractor(r)
        /\ "extra" \in DOMAIN out[r].metadata
        /\ \E rec \in Emitted(r) :
              /\ rec.metadata.extra = <<"from-e1">>
              /\ rec.metadata.extra # out[r].metadata.extra
              /\ rec.metadata.note = out[r].metadata.note
              /\ DOMAIN rec.metadata \cap DefaultKeys = {}

-----------------------------------------------------------------------------
(* C15 *)

\* C15: under a rule without extractor, the record's metadata has the keys of
\* the caller's metadata and of default metadata, and for a key of both the
\* caller's value.
C15_CallerMetadataKept ==
    \A r \in Reqs :
        \A rec \in DefaultRecords(r) :
            LET caller == out[r].metadata
            IN  /\ DOMAIN rec.metadata = DOMAIN caller \cup DefaultKeys
                /\ \A k \in DOMAIN caller : rec.metadata[k] = caller[k]

\* C15 the other way round, as line 293 has it: for a key of both, the
\* default value.
C15_DefaultsOverrideCaller ==
    \A r \in Reqs :
        \A rec \in DefaultRecords(r) :
            LET caller == out[r].metadata
            IN  /\ DOMAIN rec.metadata = DOMAIN caller \cup DefaultKeys
                /\ \A k \in DefaultKeys : rec.metadata[k] = out[r].defaultMetaData[k]
                /\ \A k \in DOMAIN caller \ DefaultKeys : rec.metadata[k] = caller[k]

-----------------------------------------------------------------------------
(* C16 *)

\* C16: resourceUk is filterByTk whenever that is given, also next to a
\* non-empty filterKeys; the keys joined by commas only without filterByTk;
\* and the empty string when neither is given.
C16_FilterTokenFirst ==
    \A r \in Reqs :
        \A rec \in Emitted(r) :
            LET filterByTk == ctx[r].action.params.filterByTk
                filterKeys == ctx[r].action.params.filterKeys
            IN  /\ filterByTk # EMPTY => rec.resourceUk = filterByTk
                /\ (filterByTk = EMPTY /\ Len(filterKeys) > 0) =>
                      rec.resourceUk = join(filterKeys)
                /\ (filterByTk = EMPTY /\ Len(filterKeys) = 0) =>
                      rec.resourceUk = EMPTY

\* C16 the other way round, as lines 255-261 have it: a non-empty filterKeys
\* comes first.
C16_KeyListFirst ==
    \A r \in Reqs :
        \A rec \in Emitted(r) :
            LET filterByTk == ctx[r].action.params.filterByTk
                filterKeys == ctx[r].action.params.filterKeys
            IN  /\ Len(filterKeys) > 0 => rec.resourceUk = join(filterKeys)
                /\ (Len(filterKeys) = 0 /\ filterByTk # EMPTY) =>
                      rec.resourceUk = filterByTk
                /\ (filterByTk = EMPTY /\ Len(filterKeys) = 0) =>
                      rec.resourceUk = EMPTY

-----------------------------------------------------------------------------
(* C17 *)

\* what the user resolver of the request's rule resolved with: the first result
ResolverOutput(r) == out[r].resolved[1]

\* C17: under a rule with a user resolver, userId is the resolver's id iff it
\* returned one and roleName the resolver's roleName iff it returned one; a
\* field it did not return, and both when it returned nothing, keep the
\* session's value; so do both under a rule without resolver.
C17_PartialUserOverride ==
    \A r \in Reqs :
        \A rec \in Emitted(r) :
            LET sessionId == ctx[r].state.currentUser.id
                sessionRole == ctx[r].state.currentRole
            IN  IF HasResolver(r)
                THEN LET userInfo == ResolverOutput(r)
                         gaveId == userInfo.given /\ userInfo.id # EMPTY
                         gaveRole == userInfo.given /\ userInfo.roleName # EMPTY
                     IN  /\ rec.userId = (IF gaveId THEN userInfo.id ELSE sessionId)
                         /\ rec.roleName =
                               (IF gaveRole THEN userInfo.roleName ELSE sessionRole)
                ELSE /\ rec.userId = sessionId
                     /\ rec.roleName = sessionRole

\* C17 witness: the resolver returned an id and no roleName, and the record
\* has the resolver's id and the session's role.
C17_Witness ==
    \E r \in Reqs :
        /\ HasResolver(r)
        /\ \E rec \in Emitted(r) :
              /\ ResolverOutput(r).given
              /\ ResolverOutput(r).id = <<"id-from-hook">>
              /\ ResolverOutput(r).roleName = EMPTY
              /\ rec.userId = <<"id-from-hook">>
              /\ rec.roleName = ctx[r].state.currentRole

-----------------------------------------------------------------------------
(* C18 *)

\* the hooks of the request's rule, in the order output calls them
HooksOf(r) ==
    (IF HasResolver(r) THEN <<out[r].action.getUserInfo>> ELSE <<>>)
      \o (IF HasExtractor(r) THEN <<out[r].action.getMetaData>> ELSE <<>>)

\* the call of output is suspended at an await
OutputSuspended(r) ==
    out[r].pc \in {"awaitUserInfo", "awaitMetaData", "awaitDefaultMetaData"}

\* C18: logger.log is called only once the handler has completed and every
\* hook of the rule, getUserInfo then getMetaData, has been called and has
\* resolved, and the record it gets holds what they resolved with; and the
\* middleware has settled whenever output is suspended at a hook or has
\* called the logger: it waits for neither.
C18_HooksBeforeSinkResponseNotBlocked ==
    \A r \in Reqs :
        /\ \A n \in 1..Len(out[r].hookCalls) :
              n <= Len(HooksOf(r)) /\ out[r].hookCalls[n] = HooksOf(r)[n]
        /\ (OutputSuspended(r) \/ out[r].sink # <<>>) => Settled(r)
        /\ \A rec \in Emitted(r) :
              /\ mw[r].nextCalls = 1
              /\ out[r].hookCalls = HooksOf(r)
              /\ Len(out[r].resolved) = Len(HooksOf(r))
              /\ HasResolver(r) =>
                    LET userInfo == ResolverOutput(r)
                    IN  userInfo.given =>
                            /\ rec.userId = userInfo.id
                            /\ rec.roleName = userInfo.roleName
              /\ HasExtractor(r) =>
                    \A k \in DOMAIN ExtractorOutput(r) :
                        /\ k \in DOMAIN rec.metadata
                        /\ rec.metadata[k] = ExtractorOutput(r)[k]

\* C18 witness: one request has completed while its getUserInfo is still
\* pending and nothing was logged for it; for another, both hooks resolved
\* and the record logged holds their results.
C18_Witness ==
    \E r, q \in Reqs :
        /\ Settled(r)
        /\ out[r].pc = "awaitUserInfo"
        /\ out[r].sink = <<>>
        /\ Len(HooksOf(q)) = 2
        /\ Len(out[q].resolved) = 2
        /\ \E rec \in Emitted(q) :
              /\ rec.userId = <<"id-from-hook">>
              /\ rec.metadata.extra = <<"from-e1">>

-----------------------------------------------------------------------------
(* C19 *)

\* C19: whatever the interleaving of the requests, every record logged for
\* a request has that request's id, the flag the middleware call of that
\* request holds, the failure flag and failure metadata only if that
\* request's own handler threw, and then that handler's message and status.
C19_RequestIsolation ==
    \A r \in Reqs :
        \A rec \in Emitted(r) :
            /\ rec.uuid = ctx[r].reqId
            /\ \A q \in Reqs \ {r} : rec.uuid # ctx[q].reqId
            /\ rec.status = mw[r].status
            /\ rec.status = StatusFailure => HandlerThrew(r)
            /\ ~HandlerThrew(r) =>
                  /\ rec.status = StatusSuccess
                  /\ "errMsg" \notin DOMAIN rec.metadata
                  /\ "status" \notin DOMAIN rec.metadata
            /\ "errMsg" \in DOMAIN rec.metadata =>
                  /\ HandlerThrew(r)
                  /\ rec.metadata.errMsg = messageOf(mw[r].thrown)
                  /\ rec.metadata.status = mw[r].completed.status

\* C19 witness: a request whose handler threw Error('boom') and a request
\* whose handler returned were both logged, the first as a failure with
\* 'boom', the second as a success without failure metadata.
C19_Witness ==
    \E r, q \in Reqs :
        /\ r # q
        /\ mw[r].thrown = Boom
        /\ mw[q].pc = "resolved"
        /\ \E rec \in Emitted(r) :
              /\ rec.uuid = r
              /\ rec.status = StatusFailure
              /\ rec.metadata.errMsg = "boom"
        /\ \E rec \in Emitted(q) :
              /\ rec.uuid = q
              /\ rec.status = StatusSuccess
              /\ "errMsg" \notin DOMAIN rec.metadata

-----------------------------------------------------------------------------
(* C20 *)

\* the record's fields read from the context c, under default metadata
SnapshotOf(rec, c) ==
    /\ rec.metadata.response = getDefaultMetaData(c).response
    /\ rec.metadata.request = getDefaultMetaData(c).request
    /\ rec.resource = formatAuditData(c).resource
    /\ rec.collection = formatAuditData(c).collection
    /\ rec.association = formatAuditData(c).association
    /\ rec.action = formatAuditData(c).action
    /\ rec.resourceUk = formatAuditData(c).resourceUk
    /\ rec.dataSource = formatAuditData(c).dataSource
    /\ rec.ip = formatAuditData(c).ip
    /\ rec.ua = formatAuditData(c).ua

\* C20: the context-derived contents of a record are those of the context
\* as it was when the handler completed, whatever is done to the context
\* after the middleware has returned.
C20_SnapshotAtCompletion ==
    \A r \in Reqs :
        HandlerReturned(r) =>
            \A rec \in DefaultRecords(r) : SnapshotOf(rec, mw[r].completed)

\* C20 under a rule without user resolver: the record is the snapshot.
C20_SnapshotWithoutResolver ==
    \A r \in Reqs :
        (HandlerReturned(r) /\ ~HasResolver(r)) =>
            \A rec \in DefaultRecords(r) : SnapshotOf(rec, mw[r].completed)

====
